---- MODULE Spec2Model ----
(***************************************************************************)
(* A model of the "tokens" model-comparison harness:                       *)
(*   - main.py: load_models_config, get_env_value and main (the per-model  *)
(*     loop, the sort and the performance summary);                        *)
(*   - crew.py: the TokensCrew client main builds for every model;         *)
(*   - test_models.py: the thread-per-model variant.                       *)
(*                                                                         *)
(* Python values of mixed type are tagged records ([type |-> "int", ...]). *)
(* Configuration strings that get_env_value inspects are sequences of      *)
(* one-character strings, so that startswith, endswith and slicing are     *)
(* computed as Python computes them.                                       *)
(***************************************************************************)
EXTENDS Integers, Sequences, FiniteSets

VARIABLES
    pc,           \* main(): position ("start", "loop", "invoking", "done", "load_failed", "aborted")
    environ,      \* os.environ, restricted to the variables the configuration names
    models,       \* main(): the list load_models_config() returned
    idx,          \* main(): enumerate(models, 1) position of the model being tested
    pending,      \* main(): the blocking kickoff() call in progress, "" when none
    crew_output,  \* main(): the local holding the last CrewOutput kickoff() returned
    results,      \* main(): the result collection
    unsorted,     \* the result collection as the loop left it, kept when results.sort() runs
    table,        \* the rows of the summary table, as printed
    summary,      \* the fastest / slowest / average block, as printed
    invocations,  \* number of kickoff() calls issued
    console,      \* section markers printed so far
    value,        \* get_env_value(): argument
    getenv,       \* get_env_value(): the environment it reads
    outcome,      \* get_env_value(): what the call did
    model_names,  \* test_models.py: the model list fetched from the proxy
    tpc,          \* test_models.py: position of the main thread
    ti,           \* test_models.py: loop index of the main thread
    threads,      \* test_models.py: the threads list
    tstate,       \* test_models.py: state of the thread of each model
    tprinted      \* test_models.py: what each thread printed last

mainVars == <<pc, environ, models, idx, pending, crew_output, results, unsorted,
              table, summary, invocations, console>>
resolveVars == <<value, getenv, outcome>>
threadVars == <<model_names, tpc, ti, threads, tstate, tprinted>>
vars == <<mainVars, resolveVars, threadVars>>

(***************************************************************************)
(* Bounds of the model.                                                    *)
(***************************************************************************)
MaxModels == 3       \* longest configured model list
MaxElapsed == 1      \* largest elapsed time, in clock ticks
MaxValueLen == 5     \* longest string handed to get_env_value
MaxThreadModels == 3 \* longest model list of the threaded variant

(***************************************************************************)
(* Python values.                                                          *)
(***************************************************************************)
PyNone == [type |-> "NoneType"]
PyStr(s) == [type |-> "str", val |-> s]
PyInt(n) == [type |-> "int", val |-> n]
IsNone(v) == v.type = "NoneType"
IsInt(v) == v.type = "int"
IsStr(v) == v.type = "str"
\* Python truthiness of an optional string: None and "" are falsy.
Falsy(v) == IsNone(v) \/ (IsStr(v) /\ v.val = <<>>)

StartsWith(s, p) == Len(s) >= Len(p) /\ SubSeq(s, 1, Len(p)) = p
EndsWith(s, p) == Len(s) >= Len(p) /\ SubSeq(s, Len(s) - Len(p) + 1, Len(s)) = p
\* s[2:-1]
SliceTwoToLast(s) == SubSeq(s, 3, Len(s) - 1)

(***************************************************************************)
(* get_env_value (main.py 33-44).                                          *)
(***************************************************************************)
OsGetenv(env, name) == IF name \in DOMAIN env THEN PyStr(env[name]) ELSE PyNone

Returned(v) == [raised |-> "", value |-> v]
Raised(exc) == [raised |-> exc, value |-> <<>>]

\* A slip: the slice keeps the closing brace, value[2:].
get_env_value_KeepsBrace(v, env) ==
    IF StartsWith(v, <<"$", "{">>) /\ EndsWith(v, <<"}">>)
    THEN LET env_var == SubSeq(v, 3, Len(v))
             env_value == OsGetenv(env, env_var)
         IN  IF Falsy(env_value) THEN Raised("ValueError") ELSE Returned(env_value.val)
    ELSE Returned(v)

get_env_value(v, env) ==
    IF StartsWith(v, <<"$", "{">>) /\ EndsWith(v, <<"}">>)
    THEN LET env_var == SliceTwoToLast(v)
             env_value == OsGetenv(env, env_var)
         IN  IF Falsy(env_value) THEN Raised("ValueError") ELSE Returned(env_value.val)
    ELSE Returned(v)

(***************************************************************************)
(* The configuration and the environment main() may run against.           *)
(* A descriptor is a YAML mapping: a key that is not in its DOMAIN is a    *)
(* key the file left out.                                                  *)
(***************************************************************************)
Placeholder == <<"$", "{", "F", "}">>
Literal == <<"u">>

Descriptors ==
    { [name |-> "A", model |-> "m1", base_url |-> Literal, api_key |-> Literal],
      [name |-> "B", model |-> "m2", base_url |-> Literal, api_key |-> Placeholder],
      [name |-> "C", model |-> "m3", base_url |-> Placeholder],
      [model |-> "m4", base_url |-> Literal, api_key |-> Literal],
      [name |-> "E", base_url |-> Literal, api_key |-> Literal] }

ModelLists == UNION { [1..n -> Descriptors] : n \in 0..MaxModels }

Environs ==
    { [n \in {} |-> <<>>],
      [n \in {<<"F">>} |-> <<>>],
      [n \in {<<"F">>} |-> <<"k">>] }

\* What load_models_config() can raise (main.py 24-30).
LoadErrors == {"FileNotFoundError", "YAMLError", "KeyError"}

\* CrewOutput objects kickoff() can return: .raw and .token_usage.
UsageMetrics(p, c) ==
    [type |-> "UsageMetrics", prompt_tokens |-> p, completion_tokens |-> c,
     total_tokens |-> p + c]
CrewOutputs ==
    { [type |-> "CrewOutput", raw |-> "lyrics", token_usage |-> u] :
        u \in {PyNone, UsageMetrics(3, 4)} }

\* Whether the endpoint ever answers the request kickoff() sends.
EndpointBehaviours == {"answers", "silent"}

(***************************************************************************)
(* The records main() appends to results.                                  *)
(***************************************************************************)
\* A slip: token_out reads prompt_tokens.
SuccessReport_SwapsCounts(model_name, model_id, elapsed_time, out) ==
    LET token_stats == out.token_usage
        reported == ~IsNone(token_stats)
    IN  [model |-> model_name,
         model_id |-> model_id,
         execution_time_sec |-> elapsed_time,
         response |-> PyStr(out.raw),
         success |-> TRUE,
         error |-> PyNone,
         token_in |-> IF reported THEN PyInt(token_stats.prompt_tokens) ELSE PyInt(0),
         token_out |-> IF reported THEN PyInt(token_stats.prompt_tokens) ELSE PyInt(0),
         total_tokens |-> IF reported THEN PyInt(token_stats.total_tokens) ELSE PyInt(0)]

\* main.py 110-136
SuccessReport(model_name, model_id, elapsed_time, out) ==
    LET token_stats == out.token_usage
        reported == ~IsNone(token_stats)
    IN  [model |-> model_name,
         model_id |-> model_id,
         execution_time_sec |-> elapsed_time,
         response |-> PyStr(out.raw),
         success |-> TRUE,
         error |-> PyNone,
         token_in |-> IF reported THEN PyInt(token_stats.prompt_tokens) ELSE PyInt(0),
         token_out |-> IF reported THEN PyInt(token_stats.completion_tokens) ELSE PyInt(0),
         total_tokens |-> IF reported THEN PyInt(token_stats.total_tokens) ELSE PyInt(0)]

\* A slip: the except block leaves 'error' unset.
FailureReport_NoError(model_name, model_id, elapsed_time, message) ==
    [model |-> model_name,
     model_id |-> model_id,
     execution_time_sec |-> elapsed_time,
     response |-> PyNone,
     success |-> FALSE,
     error |-> PyNone,
     token_in |-> PyStr("N/A"),
     token_out |-> PyStr("N/A"),
     total_tokens |-> PyStr("N/A")]

\* main.py 150-160
FailureReport(model_name, model_id, elapsed_time, message) ==
    [model |-> model_name,
     model_id |-> model_id,
     execution_time_sec |-> elapsed_time,
     response |-> PyNone,
     success |-> FALSE,
     error |-> PyStr(message),
     token_in |-> PyStr("N/A"),
     token_out |-> PyStr("N/A"),
     total_tokens |-> PyStr("N/A")]

\* main.py 79-80: the two subscripts outside the try block.
HasIdentity(d) == "name" \in DOMAIN d /\ "model" \in DOMAIN d

\* main.py 92-93: "" when both values resolve, else str(e) of what was raised.
ResolveError(d, env) ==
    IF "base_url" \notin DOMAIN d THEN "'base_url'"
    ELSE IF get_env_value(d.base_url, env).raised # "" THEN "Environment variable is not set"
    ELSE IF "api_key" \notin DOMAIN d THEN "'api_key'"
    ELSE IF get_env_value(d.api_key, env).raised # "" THEN "Environment variable is not set"
    ELSE ""

(***************************************************************************)
(* main(): loading the configuration (main.py 62-75).                      *)
(***************************************************************************)
MainStutter == UNCHANGED <<resolveVars, threadVars>>

LoadConfig ==
    /\ pc = "start"
    /\ \E ms \in ModelLists :
          /\ models' = ms
          /\ results' = <<>>
          /\ idx' = 1
          /\ console' = Append(console, <<"Testing models", "">>)
          /\ pc' = "loop"
    /\ UNCHANGED <<environ, pending, crew_output, unsorted, table, summary, invocations>>
    /\ MainStutter

\* A slip: the except block of line 65 does not return; main() goes on
\* with no model.
LoadConfigFails_Continues ==
    /\ pc = "start"
    /\ \E e \in LoadErrors :
          console' = Append(console, <<"Error loading models configuration", e>>)
    /\ models' = <<>>
    /\ results' = <<>>
    /\ idx' = 1
    /\ pc' = "loop"
    /\ UNCHANGED <<environ, pending, crew_output, unsorted, table, summary, invocations>>
    /\ MainStutter

LoadConfigFails ==
    /\ pc = "start"
    /\ \E e \in LoadErrors :
          console' = Append(console, <<"Error loading models configuration", e>>)
    /\ pc' = "load_failed"
    /\ UNCHANGED <<environ, models, idx, pending, crew_output, results, unsorted,
                   table, summary, invocations>>
    /\ MainStutter

(***************************************************************************)
(* main(): one model's turn (main.py 78-166).                              *)
(***************************************************************************)
InLoop == pc = "loop" /\ idx <= Len(models)

\* A KeyError at line 79 or 80 is outside the try: it leaves main(), and
\* run_safe() prints "Fatal error" and re-raises (main.py 230-232).
ModelAborts ==
    /\ InLoop
    /\ ~HasIdentity(models[idx])
    /\ pc' = "aborted"
    /\ console' = Append(console, <<"Fatal error", "KeyError">>)
    /\ UNCHANGED <<environ, models, idx, pending, crew_output, results, unsorted,
                   table, summary, invocations>>
    /\ MainStutter

\* A slip: the except block records nothing.
ModelFailsBeforeCall_Drops ==
    /\ InLoop
    /\ HasIdentity(models[idx])
    /\ ResolveError(models[idx], environ) # ""
    /\ idx' = idx + 1
    /\ UNCHANGED <<pc, environ, models, pending, crew_output, results, unsorted, table,
                   summary, invocations, console>>
    /\ MainStutter

\* The except block (main.py 147-166) for what is raised before kickoff():
\* a missing key or an unset variable at lines 92-93, or TokensCrew(...)
\* failing to build its client (crew.py 16-25).
ModelFailsBeforeCall ==
    /\ InLoop
    /\ HasIdentity(models[idx])
    /\ LET d == models[idx]
           err == ResolveError(d, environ)
       IN  \E t \in 0..MaxElapsed, msg \in {err, "client error"} :
              /\ msg # ""
              /\ err # "" => msg = err
              /\ results' = Append(results, FailureReport(d.name, d.model, t, msg))
    /\ idx' = idx + 1
    /\ UNCHANGED <<pc, environ, models, pending, crew_output, unsorted, table, summary,
                   invocations, console>>
    /\ MainStutter

\* main.py 96-105: the client is built and kickoff() is called; it blocks.
ModelCall ==
    /\ InLoop
    /\ HasIdentity(models[idx])
    /\ ResolveError(models[idx], environ) = ""
    /\ \E b \in EndpointBehaviours : pending' = b
    /\ invocations' = invocations + 1
    /\ pc' = "invoking"
    /\ UNCHANGED <<environ, models, idx, crew_output, results, unsorted, table, summary,
                   console>>
    /\ MainStutter

\* kickoff() returns (main.py 105-145). crew.py 20-25 passes no timeout to
\* the client, so nothing in this program ends a call the endpoint never
\* answers: the call returns or raises only when the endpoint answers.
KickoffReturns ==
    /\ pc = "invoking"
    /\ pending = "answers"
    /\ LET d == models[idx]
       IN  \E out \in CrewOutputs, t \in 0..MaxElapsed :
              /\ crew_output' = out
              /\ results' = Append(results, SuccessReport(d.name, d.model, t, out))
    /\ idx' = idx + 1
    /\ pending' = ""
    /\ pc' = "loop"
    /\ UNCHANGED <<environ, models, unsorted, table, summary, invocations, console>>
    /\ MainStutter

\* kickoff() raises (main.py 147-166).
KickoffRaises ==
    /\ pc = "invoking"
    /\ pending = "answers"
    /\ LET d == models[idx]
       IN  \E t \in 0..MaxElapsed :
              results' = Append(results, FailureReport(d.name, d.model, t, "request error"))
    /\ idx' = idx + 1
    /\ pending' = ""
    /\ pc' = "loop"
    /\ UNCHANGED <<environ, models, crew_output, unsorted, table, summary, invocations,
                   console>>
    /\ MainStutter

(***************************************************************************)
(* main(): the performance summary (main.py 168-216).                      *)
(***************************************************************************)
\* A slip: the key leaves out "not success".
SortKey_TimeOnly(r) == <<FALSE, r.execution_time_sec>>

\* The sort key of line 172, (not x['success'], x['execution_time_sec']),
\* and Python's order on such tuples (False < True).
SortKey(r) == <<~r.success, r.execution_time_sec>>
KeyLess(a, b) ==
    \/ (~a[1] /\ b[1])
    \/ (a[1] = b[1] /\ a[2] < b[2])

\* list.sort is stable: a record goes behind every record whose key is not
\* greater than its own.
InsertByKey(sorted, r) ==
    LET later == { i \in 1..Len(sorted) : KeyLess(SortKey(r), SortKey(sorted[i])) }
        at == IF later = {} THEN Len(sorted) + 1
              ELSE CHOOSE i \in later : \A j \in later : i <= j
    IN  SubSeq(sorted, 1, at - 1) \o <<r>> \o SubSeq(sorted, at, Len(sorted))

RECURSIVE SortResults(_)
SortResults(rs) ==
    IF rs = <<>> THEN <<>>
    ELSE InsertByKey(SortResults(SubSeq(rs, 1, Len(rs) - 1)), rs[Len(rs)])

\* main.py 179-186: one printed row per record.
TableRow(r) ==
    [model |-> r.model, status |-> IF r.success THEN "Success" ELSE "Failed",
     time |-> r.execution_time_sec, token_in |-> r.token_in,
     token_out |-> r.token_out, total |-> r.total_tokens]

IsSuccess(r) == r.success
IsFailure(r) == ~r.success
\* main.py 189-190
Successful(rs) == SelectSeq(rs, IsSuccess)
Failed(rs) == SelectSeq(rs, IsFailure)

RECURSIVE SumTimes(_)
SumTimes(rs) ==
    IF rs = <<>> THEN 0 ELSE rs[1].execution_time_sec + SumTimes(Tail(rs))

\* A slip: slowest reads the first entry, as fastest does.
Slowest_First(successful) == successful[1]

\* main.py 197-198
Fastest(successful) == successful[1]
Slowest(successful) == successful[Len(successful)]

\* main.py 192-214: what the statistics block prints. The average is kept
\* as the sum and the count it divides.
Statistics(rs) ==
    LET successful == Successful(rs)
        failed == Failed(rs)
        counts == [total |-> Len(rs), successful |-> Len(successful),
                   failed |-> Len(failed)]
    IN  IF successful # <<>>
        THEN [counts |-> counts, failed |-> failed, ranked |-> TRUE,
              fastest |-> Fastest(successful), slowest |-> Slowest(successful),
              avg_sum |-> SumTimes(successful), avg_count |-> Len(successful)]
        ELSE [counts |-> counts, failed |-> failed, ranked |-> FALSE]

NoStatistics == [ranked |-> FALSE]

PrintSummary ==
    /\ pc = "loop"
    /\ idx > Len(models)
    /\ LET sorted == SortResults(results)
       IN  /\ unsorted' = results
           /\ results' = sorted
           /\ table' = [i \in 1..Len(sorted) |-> TableRow(sorted[i])]
           /\ summary' = Statistics(sorted)
    /\ console' = Append(console, <<"PERFORMANCE SUMMARY", "">>)
    /\ pc' = "done"
    /\ UNCHANGED <<environ, models, idx, pending, crew_output, invocations>>
    /\ MainStutter

(***************************************************************************)
(* The run of main().                                                      *)
(***************************************************************************)
NotCalled == [called |-> FALSE]
ResolveIdle == value = <<>> /\ getenv = [n \in {} |-> <<>>] /\ outcome = NotCalled
ThreadsIdle ==
    /\ model_names = <<>>
    /\ tpc = "idle"
    /\ ti = 0
    /\ threads = <<>>
    /\ tstate = <<>>
    /\ tprinted = <<>>

MainIdle ==
    /\ pc = "idle"
    /\ environ = [n \in {} |-> <<>>]
    /\ models = <<>>
    /\ idx = 0
    /\ pending = ""
    /\ crew_output = PyNone
    /\ results = <<>>
    /\ unsorted = <<>>
    /\ table = <<>>
    /\ summary = NoStatistics
    /\ invocations = 0
    /\ console = <<>>

Init ==
    /\ pc = "start"
    /\ environ \in Environs
    /\ models = <<>>
    /\ idx = 0
    /\ pending = ""
    /\ crew_output = PyNone
    /\ results = <<>>
    /\ unsorted = <<>>
    /\ table = <<>>
    /\ summary = NoStatistics
    /\ invocations = 0
    /\ console = <<>>
    /\ ResolveIdle
    /\ ThreadsIdle

Next ==
    \/ LoadConfig
    \/ LoadConfigFails
    \/ ModelAborts
    \/ ModelFailsBeforeCall
    \/ ModelCall
    \/ KickoffReturns
    \/ KickoffRaises
    \/ PrintSummary

Spec == Init /\ [][Next]_vars

\* main() is one sequential thread: whenever a step can be taken, it is.
FairSpec == Init /\ [][Next]_vars /\ WF_vars(Next)

(***************************************************************************)
(* get_env_value on its own: every short string over the characters the    *)
(* function looks at, against every environment of two variables.          *)
(***************************************************************************)
Chars == {"$", "{", "}", "F"}
Values == UNION { [1..n -> Chars] : n \in 0..MaxValueLen }
EnvNames == {<<"F">>, <<"F", "F">>}
EnvValues == {<<>>, <<"k">>}
ResolveEnvirons == UNION { [names -> EnvValues] : names \in SUBSET EnvNames }

ResolveInit ==
    /\ value \in Values
    /\ getenv \in ResolveEnvirons
    /\ outcome = NotCalled
    /\ MainIdle
    /\ ThreadsIdle

CallGetEnvValue ==
    /\ outcome = NotCalled
    /\ outcome' = get_env_value(value, getenv)
    /\ UNCHANGED <<value, getenv, mainVars, threadVars>>

ResolveNext == CallGetEnvValue

ResolveSpec == ResolveInit /\ [][ResolveNext]_vars

(***************************************************************************)
(* test_models.py: one thread per model.                                   *)
(***************************************************************************)
ProxyModels == <<"m1", "m2", "m3", "m4", "m5", "m6">>
ThreadIds == 1..Len(model_names)
ThreadStutter == UNCHANGED <<mainVars, resolveVars>>

ThreadInit ==
    /\ model_names = <<>>
    /\ tpc = "fetch"
    /\ ti = 0
    /\ threads = <<>>
    /\ tstate = <<>>
    /\ tprinted = <<>>
    /\ MainIdle
    /\ ResolveIdle

\* test_models.py 14-25 and 84: the proxy lists at least one model.
FetchModels ==
    /\ tpc = "fetch"
    /\ \E n \in 1..MaxThreadModels :
          /\ model_names' = SubSeq(ProxyModels, 1, n)
          /\ tstate' = [i \in 1..n |-> "unstarted"]
          /\ tprinted' = [i \in 1..n |-> "nothing"]
    /\ threads' = <<>>
    /\ ti' = 1
    /\ tpc' = "starting"
    /\ ThreadStutter

\* test_models.py 21-33: no model, no connection or another error: sys.exit(1).
FetchFails ==
    /\ tpc = "fetch"
    /\ tpc' = "exited"
    /\ UNCHANGED <<model_names, ti, threads, tstate, tprinted>>
    /\ ThreadStutter

\* test_models.py 87-92
StartThread ==
    /\ tpc = "starting"
    /\ ti <= Len(model_names)
    /\ threads' = Append(threads, ti)
    /\ tstate' = [tstate EXCEPT ![ti] = "started"]
    /\ ti' = ti + 1
    /\ UNCHANGED <<model_names, tpc, tprinted>>
    /\ ThreadStutter

\* test_models.py 95-96
BeginJoin ==
    /\ tpc = "starting"
    /\ ti > Len(model_names)
    /\ tpc' = "joining"
    /\ ti' = 1
    /\ UNCHANGED <<model_names, threads, tstate, tprinted>>
    /\ ThreadStutter

\* A slip: the threads are not waited for.
JoinThread_NoWait ==
    /\ tpc = "joining"
    /\ ti <= Len(threads)
    /\ ti' = ti + 1
    /\ UNCHANGED <<model_names, tpc, threads, tstate, tprinted>>
    /\ ThreadStutter

\* test_models.py 97: join() returns once the thread has terminated.
JoinThread ==
    /\ tpc = "joining"
    /\ ti <= Len(threads)
    /\ tstate[threads[ti]] = "terminated"
    /\ ti' = ti + 1
    /\ UNCHANGED <<model_names, tpc, threads, tstate, tprinted>>
    /\ ThreadStutter

\* test_models.py 99-100
AllComplete ==
    /\ tpc = "joining"
    /\ ti > Len(threads)
    /\ tpc' = "complete"
    /\ UNCHANGED <<model_names, ti, threads, tstate, tprinted>>
    /\ ThreadStutter

\* call_model, test_models.py 52-66: prints "Calling" and posts the request.
ThreadPosts(i) ==
    /\ tstate[i] = "started"
    /\ tstate' = [tstate EXCEPT ![i] = "posting"]
    /\ tprinted' = [tprinted EXCEPT ![i] = "calling"]
    /\ UNCHANGED <<model_names, tpc, ti, threads>>
    /\ ThreadStutter

\* call_model, test_models.py 66-75: the response is printed; the thread ends.
ThreadResponds(i) ==
    /\ tstate[i] = "posting"
    /\ tstate' = [tstate EXCEPT ![i] = "terminated"]
    /\ tprinted' = [tprinted EXCEPT ![i] = "response"]
    /\ UNCHANGED <<model_names, tpc, ti, threads>>
    /\ ThreadStutter

\* call_model, test_models.py 66-79: the post (30 s timeout), raise_for_status
\* or the parsing raises; the except block prints it; the thread ends.
ThreadCatches(i) ==
    /\ tstate[i] = "posting"
    /\ tstate' = [tstate EXCEPT ![i] = "terminated"]
    /\ tprinted' = [tprinted EXCEPT ![i] = "error"]
    /\ UNCHANGED <<model_names, tpc, ti, threads>>
    /\ ThreadStutter

ThreadNext ==
    \/ FetchModels
    \/ FetchFails
    \/ StartThread
    \/ BeginJoin
    \/ JoinThread
    \/ AllComplete
    \/ \E i \in ThreadIds : ThreadPosts(i)
    \/ \E i \in ThreadIds : ThreadResponds(i)
    \/ \E i \in ThreadIds : ThreadCatches(i)

ThreadSpec == ThreadInit /\ [][ThreadNext]_vars

(***************************************************************************)
(* Properties.                                                             *)
(***************************************************************************)
Occurrences(s, x) == Cardinality({ i \in DOMAIN s : s[i] = x })
SameMultiset(s, t) ==
    /\ Len(s) = Len(t)
    /\ \A i \in DOMAIN s : Occurrences(s, s[i]) = Occurrences(t, s[i])

LoopFinished == (pc = "loop" /\ idx > Len(models)) \/ pc = "done"
Reported == pc = "done"
RecordPairs(rs) == [i \in DOMAIN rs |-> <<rs[i].model, rs[i].model_id>>]
ModelPairs(ms) == [i \in DOMAIN ms |-> <<ms[i].name, ms[i].model>>]
SomeSuccess(rs) == \E i \in DOMAIN rs : rs[i].success
SomeFailure(rs) == \E i \in DOMAIN rs : ~rs[i].success

\* C1: once the per-model loop has finished, results holds exactly one
\* record per configured model: as many records as models, with the same
\* multiset of (model name, model id) pairs; the sort and the report keep
\* it so, and the table prints one row per model.
C1_OneRecordPerModel ==
    /\ LoopFinished =>
          /\ Len(results) = Len(models)
          /\ SameMultiset(RecordPairs(results), ModelPairs(models))
    /\ Reported =>
          /\ SameMultiset(RecordPairs(unsorted), ModelPairs(models))
          /\ Len(table) = Len(models)
          /\ SameMultiset([i \in DOMAIN table |-> table[i].model],
                          [i \in DOMAIN models |-> models[i].name])

\* A report of three models, two of them with the same name and id, with a
\* success and a failure among them.
C1_Witness ==
    /\ Reported
    /\ Len(models) = 3
    /\ models[1] = models[3]
    /\ models[1] # models[2]
    /\ SomeSuccess(results)
    /\ SomeFailure(results)

\* C2: a failure during one model's turn, a malformed descriptor included,
\* never aborts the run: main() is never left by an exception of a model's
\* turn.
C2_FailureNeverAborts == pc # "aborted"

Present(v) == ~IsNone(v)
\* C3: in every record, in every state, success is true iff the response
\* text is present and the error message absent, and false iff the error
\* message is present and the response text absent.
C3_SuccessIffResponse ==
    \A rs \in {results, unsorted} : \A i \in DOMAIN rs :
        LET r == rs[i]
        IN  /\ r.success <=> (Present(r.response) /\ ~Present(r.error))
            /\ ~r.success <=> (Present(r.error) /\ ~Present(r.response))

\* A sorted report that holds a success and a failure.
C3_Witness == Reported /\ SomeSuccess(results) /\ SomeFailure(unsorted)

TokenFields(r) == <<r.token_in, r.token_out, r.total_tokens>>
AllCounts(r) == \A k \in 1..3 : IsInt(TokenFields(r)[k])
AllAbsent(r) == \A k \in 1..3 : TokenFields(r)[k] = PyStr("N/A")
\* The last record is the success built from crew_output.
LastIsFresh ==
    /\ pc = "loop"
    /\ results # <<>>
    /\ results[Len(results)].success
UsageReported == ~IsNone(crew_output.token_usage)

\* C4 (as claimed): the three token fields hold integer counts iff the
\* invocation succeeded and the endpoint reported usage; in every other
\* case they hold the absent-marker, never a number.
C4_CountsIffUsageReported ==
    /\ \A i \in DOMAIN results : ~results[i].success => AllAbsent(results[i])
    /\ LastIsFresh =>
          LET r == results[Len(results)]
          IN  /\ AllCounts(r) <=> UsageReported
              /\ ~UsageReported => AllAbsent(r)

\* C4 (amended): the three token fields hold integers iff the invocation
\* succeeded: the reported counts when the endpoint reported usage, and 0
\* when it did not; a failed record holds the marker 'N/A' in all three.
C4_CountsIffSuccess ==
    /\ \A rs \in {results, unsorted} : \A i \in DOMAIN rs :
          /\ rs[i].success <=> AllCounts(rs[i])
          /\ ~rs[i].success <=> AllAbsent(rs[i])
    /\ LastIsFresh =>
          LET r == results[Len(results)]
              u == crew_output.token_usage
          IN  IF UsageReported
              THEN TokenFields(r) = <<PyInt(u.prompt_tokens), PyInt(u.completion_tokens),
                                      PyInt(u.total_tokens)>>
              ELSE TokenFields(r) = <<PyInt(0), PyInt(0), PyInt(0)>>

\* A success whose endpoint reported no usage, behind a success whose
\* endpoint did and a failure.
C4_Witness ==
    /\ LastIsFresh
    /\ ~UsageReported
    /\ Len(results) = 3
    /\ results[1].success
    /\ results[1].token_in = PyInt(3)
    /\ ~results[2].success

KeyNotGreater(a, b) ==
    \/ (a.success /\ ~b.success)
    \/ (a.success = b.success /\ a.execution_time_sec <= b.execution_time_sec)
SameKey(a, b) ==
    a.success = b.success /\ a.execution_time_sec = b.execution_time_sec
WithKeyOf(rs, r) == LET Same(x) == SameKey(x, r) IN SelectSeq(rs, Same)

\* C5: the collection the summary table prints is the stable sort of the
\* loop's collection by (not success, elapsed time): a permutation of it,
\* every adjacent pair in key order, every success before every failure,
\* and records of equal key in their original relative order.
C5_StableSortByKey ==
    Reported =>
        /\ SameMultiset(results, unsorted)
        /\ \A i \in 1..(Len(results) - 1) : KeyNotGreater(results[i], results[i + 1])
        /\ \A i, j \in DOMAIN results : (i < j /\ results[j].success) => results[i].success
        /\ \A i \in DOMAIN unsorted : WithKeyOf(results, unsorted[i]) = WithKeyOf(unsorted, unsorted[i])
        /\ table = [i \in DOMAIN results |-> TableRow(results[i])]

\* A report the sort reordered, holding two different records of equal key.
C5_Witness ==
    /\ Reported
    /\ results # unsorted
    /\ \E i, j \in DOMAIN unsorted :
          /\ i < j
          /\ SameKey(unsorted[i], unsorted[j])
          /\ unsorted[i] # unsorted[j]

SuccessTimes(rs) == { rs[i].execution_time_sec : i \in { j \in DOMAIN rs : rs[j].success } }
\* C6: when a record is successful, the reported fastest model is a
\* successful record with the least elapsed time of the successful records,
\* the slowest one with the greatest, and fastest <= slowest; when none is
\* successful, and before the report, no fastest, slowest or average is
\* reported.
C6_FastestAndSlowest ==
    /\ ~Reported => summary = NoStatistics
    /\ Reported =>
          IF SomeSuccess(unsorted)
          THEN /\ summary.ranked
               /\ \E i \in DOMAIN unsorted : unsorted[i] = summary.fastest
               /\ \E i \in DOMAIN unsorted : unsorted[i] = summary.slowest
               /\ summary.fastest.success
               /\ summary.slowest.success
               /\ \A t \in SuccessTimes(unsorted) :
                     /\ summary.fastest.execution_time_sec <= t
                     /\ t <= summary.slowest.execution_time_sec
               /\ summary.fastest.execution_time_sec <= summary.slowest.execution_time_sec
               /\ summary.avg_count = Cardinality({ i \in DOMAIN unsorted : unsorted[i].success })
          ELSE /\ ~summary.ranked
               /\ DOMAIN summary = {"counts", "failed", "ranked"}

\* A report whose fastest success is faster than its slowest, the slower
\* one found first, with a failure that took less time than the slowest.
C6_Witness ==
    /\ Reported
    /\ summary.ranked
    /\ summary.fastest.execution_time_sec < summary.slowest.execution_time_sec
    /\ unsorted[1] = summary.slowest
    /\ \E i \in DOMAIN unsorted :
          /\ ~unsorted[i].success
          /\ unsorted[i].execution_time_sec < summary.slowest.execution_time_sec

IsPlaceholder(v) ==
    /\ Len(v) >= 3
    /\ v[1] = "$"
    /\ v[2] = "{"
    /\ v[Len(v)] = "}"
NameIn(v) == [i \in 1..(Len(v) - 3) |-> v[i + 2]]
IsSet(env, name) == name \in DOMAIN env /\ env[name] # <<>>
Resolves(exc) ==
    outcome # NotCalled =>
        IF IsPlaceholder(value)
        THEN IF IsSet(getenv, NameIn(value))
             THEN outcome = Returned(getenv[NameIn(value)])
             ELSE outcome.raised = exc
        ELSE outcome = Returned(value)

\* C7 (as claimed): for a string that starts with '${' and ends with '}',
\* get_env_value returns the value of the environment variable named
\* between them and fails with ConfigError when it is unset or empty; any
\* other string is returned unchanged.
C7_ResolveOrConfigError == Resolves("ConfigError")

\* C7 (amended): the same, the failure being a ValueError.
C7_ResolveOrValueError == Resolves("ValueError")

\* A placeholder of a set variable resolved to its value.
C7_Witness ==
    /\ value = <<"$", "{", "F", "F", "}">>
    /\ IsSet(getenv, <<"F", "F">>)
    /\ <<"F">> \notin DOMAIN getenv
    /\ outcome = Returned(<<"k">>)

Printed(tag) == \E i \in DOMAIN console : console[i][1] = tag
\* C8: when loading the configuration fails, main() prints the error and
\* the run ends there: no invocation issued, no record created, no
\* performance summary printed.
C8_LoadFailureEndsRun ==
    Printed("Error loading models configuration") =>
        /\ pc = "load_failed"
        /\ Len(console) = 1
        /\ invocations = 0
        /\ results = <<>>
        /\ table = <<>>
        /\ summary = NoStatistics
        /\ ~Printed("PERFORMANCE SUMMARY")
        /\ ~ENABLED Next

\* The configuration file lacks the 'models' key.
C8_Witness ==
    /\ pc = "load_failed"
    /\ console = << <<"Error loading models configuration", "KeyError">> >>

C10_AllThreadsJoined ==
    /\ tpc \in {"joining", "complete"} =>
          /\ threads = [i \in ThreadIds |-> i]
          /\ \A i \in ThreadIds : tstate[i] # "unstarted"
    /\ tpc = "complete" =>
          \A i \in ThreadIds :
              /\ tstate[i] = "terminated"
              /\ tprinted[i] \in {"response", "error"}
    /\ \A i \in DOMAIN tstate : tprinted[i] = "error" => tstate[i] = "terminated"

\* Three threads joined: the first caught an error, the others answered.
C10_Witness ==
    /\ tpc = "complete"
    /\ Len(model_names) = 3
    /\ tprinted = <<"error", "response", "response">>

====
